---- MODULE Spec2Model ----
(***************************************************************************)
(* Account storage buffer of the Cadence runtime (runtime/storage.go):     *)
(* the Storage type with its deltas, cache and contractUpdates maps over   *)
(* an atree.Ledger, and the operations ValueExists, ReadValue, WriteValue, *)
(* recordContractUpdate and Commit.                                        *)
(***************************************************************************)
EXTENDS Integers, Sequences, FiniteSets, TLC

\* ------------------------------------------------------------------------
\* Bounds of the model
\* ------------------------------------------------------------------------

\* Operations performed in one run, over all the Storage instances created
\* one after the other on the same ledger.
MaxOps == 3

\* Ledger and codec failures the host injects into one Commit.
MaxFaults == 2

\* UseMemory reports made to one memory gauge.
MaxUsages == 3

\* Accept calls made on one REPL, and elements in the code of one call.
MaxAccepts == 2

MaxElements == 2

\* ------------------------------------------------------------------------
\* Values, keys, bytes
\* ------------------------------------------------------------------------

\* The nil interpreter.Value: a deletion in deltas, a proven absence in cache.
Nil == 0

\* Non-nil interpreter values.
Values == {1, 2}

\* interpreter.OptionalValue: NilValue{} and SomeValue{Value: v}.
NilValue == << >>

NewSomeValueNonCopying(v) == << v >>

OptionalValues == {NilValue} \cup {NewSomeValueNonCopying(v) : v \in Values}

\* interpreter.StorageKey.  An address is the number its 8 big-endian bytes
\* spell, which is how bytes.Compare orders addresses; a key string is its
\* single byte ("x" is 120, "y" is 121), which is how Go orders strings.
StorageKey(address, key) == [Address |-> address, Key |-> key]

\* Two keys of the ordering scenario, (A,y) and (B,x): the smaller address
\* carries the greater key string.
StorageKeys == {StorageKey(1, 121), StorageKey(2, 120)}

NoKey == [Address |-> 0, Key |-> 0]

\* Canonical encoding of a storable value: a format version byte followed
\* by the payload.  Decoding rejects anything else.
Encode(v) == << 1, v >>

DecodeError == 0 - 1

Decode(b) == IF Len(b) = 2 /\ b[1] = 1 /\ b[2] \in Values THEN b[2] ELSE DecodeError

\* ------------------------------------------------------------------------
\* Go maps: a function whose DOMAIN is the set of keys present
\* ------------------------------------------------------------------------

EmptyMap == [k \in {} |-> Nil]

MapSet(m, k, v) == [x \in (DOMAIN m) \cup {k} |-> IF x = k THEN v ELSE m[x]]

\* The orders in which `range m` may visit the keys of m.
IterationOrders(m) ==
    LET n == Cardinality(DOMAIN m)
    IN  {f \in [1..n -> DOMAIN m] : \A i, j \in 1..n : i # j => f[i] # f[j]}

\* ------------------------------------------------------------------------
\* The ledger (atree.Ledger): bytes per key, empty bytes meaning absence
\* ------------------------------------------------------------------------

\* Bytes no codec version produces; decoding them fails.
Malformed == << 0 >>

\* What the ledger may hold for a key before the first transaction: nothing,
\* the encoding of a value, or bytes that do not decode.
SeedBytes == {<< >>, Encode(1), Malformed}

SeededLedgers == [StorageKeys -> SeedBytes]

LedgerGetValue(l, k) == l[k]

LedgerValueExists(l, k) == Len(l[k]) > 0

LedgerSetValue(l, k, b) == [l EXCEPT ![k] = b]

LedgerCall(name, k, b, ok) == [call |-> name, key |-> k, bytes |-> b, ok |-> ok]

\* An error value, identified by the call that produced it: its kind, the
\* key it was about and the position of the entry in the sorted slice.
NoError == [kind |-> "none", key |-> NoKey, pos |-> 0]

Error(kind, k, pos) == [kind |-> kind, key |-> k, pos |-> pos]

\* ------------------------------------------------------------------------
\* State
\* ------------------------------------------------------------------------

VARIABLES
    ledger,           \* Storage.Ledger: the bytes the host holds per key
    deltas,           \* Storage.deltas
    cache,            \* Storage.cache
    contractUpdates,  \* Storage.contractUpdates
    last,             \* the operation that ran last and what it returned
    ledgerCalls,      \* the ledger and slab store calls of that operation
    metricCalls,      \* the reportMetric reports of that operation
    ledgerBefore,     \* the ledger as that operation found it
    written,          \* per key, the argument of the last WriteValue
    loads,            \* per key, ReadValue calls that loaded it by get_value
    committed,        \* whether Commit has run on the current Storage
    ops,              \* operations run so far
    meter,            \* testMemoryGauge.meter
    meterBefore,      \* the meter as the last UseMemory found it
    usages,           \* the MemoryUsage reports made so far, in order
    repl,             \* the REPL: its checker, interpreter and callbacks
    events,           \* what the last Accept did, in order
    accepted,         \* how the last Accept ended and what it returned
    parsed,           \* what the parser made of the last Accept's code
    accepts           \* Accept calls made so far

storageVars == << ledger, deltas, cache, contractUpdates, last, ledgerCalls,
                  metricCalls, ledgerBefore, written, loads, committed, ops >>

gaugeVars == << meter, meterBefore, usages >>

replVars == << repl, events, accepted, parsed, accepts >>

vars == << storageVars, gaugeVars, replVars >>

Result(op, k, status, ret, exists, err) ==
    [op |-> op, key |-> k, status |-> status, ret |-> ret,
     exists |-> exists, err |-> err]

\* ------------------------------------------------------------------------
\* ValueExists
\* ------------------------------------------------------------------------

\* ValueExists that records the key as absent when the ledger call fails.
ValueExists_cacheOnError(d, c, l, storageKey, ledgerFails) ==
    IF storageKey \in DOMAIN d THEN
        [cache |-> c, status |-> "ok", exists |-> d[storageKey] # Nil,
         calls |-> << >>]
    ELSE IF storageKey \in DOMAIN c THEN
        [cache |-> c, status |-> "ok", exists |-> c[storageKey] # Nil,
         calls |-> << >>]
    ELSE IF ledgerFails THEN
        [cache |-> MapSet(c, storageKey, Nil), status |-> "panic", exists |-> FALSE,
         calls |-> << LedgerCall("value_exists", storageKey, << >>, FALSE) >>]
    ELSE
        LET exists == LedgerValueExists(l, storageKey)
        IN  [cache |-> IF ~exists THEN MapSet(c, storageKey, Nil) ELSE c,
             status |-> "ok", exists |-> exists,
             calls |-> << LedgerCall("value_exists", storageKey, << >>, TRUE) >>]

\* ValueExists that records the key as absent whatever the ledger answers.
ValueExists_cacheOnHit(d, c, l, storageKey, ledgerFails) ==
    IF storageKey \in DOMAIN d THEN
        [cache |-> c, status |-> "ok", exists |-> d[storageKey] # Nil,
         calls |-> << >>]
    ELSE IF storageKey \in DOMAIN c THEN
        [cache |-> c, status |-> "ok", exists |-> c[storageKey] # Nil,
         calls |-> << >>]
    ELSE IF ledgerFails THEN
        [cache |-> c, status |-> "panic", exists |-> FALSE,
         calls |-> << LedgerCall("value_exists", storageKey, << >>, FALSE) >>]
    ELSE
        LET exists == LedgerValueExists(l, storageKey)
        IN  [cache |-> MapSet(c, storageKey, Nil),
             status |-> "ok", exists |-> exists,
             calls |-> << LedgerCall("value_exists", storageKey, << >>, TRUE) >>]

\* ValueExists that takes any deltas entry, a deletion included, for an
\* existing value.
ValueExists_deltaPresent(d, c, l, storageKey, ledgerFails) ==
    IF storageKey \in DOMAIN d THEN
        [cache |-> c, status |-> "ok", exists |-> TRUE,
         calls |-> << >>]
    ELSE IF storageKey \in DOMAIN c THEN
        [cache |-> c, status |-> "ok", exists |-> c[storageKey] # Nil,
         calls |-> << >>]
    ELSE IF ledgerFails THEN
        [cache |-> c, status |-> "panic", exists |-> FALSE,
         calls |-> << LedgerCall("value_exists", storageKey, << >>, FALSE) >>]
    ELSE
        LET exists == LedgerValueExists(l, storageKey)
        IN  [cache |-> IF ~exists THEN MapSet(c, storageKey, Nil) ELSE c,
             status |-> "ok", exists |-> exists,
             calls |-> << LedgerCall("value_exists", storageKey, << >>, TRUE) >>]

\* ValueExists with the two local lookups exchanged: s.cache is consulted
\* before s.deltas.
ValueExists_cacheFirst(d, c, l, storageKey, ledgerFails) ==
    IF storageKey \in DOMAIN c THEN
        [cache |-> c, status |-> "ok", exists |-> c[storageKey] # Nil,
         calls |-> << >>]
    ELSE IF storageKey \in DOMAIN d THEN
        [cache |-> c, status |-> "ok", exists |-> d[storageKey] # Nil,
         calls |-> << >>]
    ELSE IF ledgerFails THEN
        [cache |-> c, status |-> "panic", exists |-> FALSE,
         calls |-> << LedgerCall("value_exists", storageKey, << >>, FALSE) >>]
    ELSE
        LET exists == LedgerValueExists(l, storageKey)
        IN  [cache |-> IF ~exists THEN MapSet(c, storageKey, Nil) ELSE c,
             status |-> "ok", exists |-> exists,
             calls |-> << LedgerCall("value_exists", storageKey, << >>, TRUE) >>]

\* The value ValueExists leaves in s.cache, what it returns and the ledger
\* calls it makes; ledgerFails is the host failing the value_exists call.
ValueExists(d, c, l, storageKey, ledgerFails) ==
    IF storageKey \in DOMAIN d THEN
        [cache |-> c, status |-> "ok", exists |-> d[storageKey] # Nil,
         calls |-> << >>]
    ELSE IF storageKey \in DOMAIN c THEN
        [cache |-> c, status |-> "ok", exists |-> c[storageKey] # Nil,
         calls |-> << >>]
    ELSE IF ledgerFails THEN
        [cache |-> c, status |-> "panic", exists |-> FALSE,
         calls |-> << LedgerCall("value_exists", storageKey, << >>, FALSE) >>]
    ELSE
        LET exists == LedgerValueExists(l, storageKey)
        IN  [cache |-> IF ~exists THEN MapSet(c, storageKey, Nil) ELSE c,
             status |-> "ok", exists |-> exists,
             calls |-> << LedgerCall("value_exists", storageKey, << >>, TRUE) >>]

\* ------------------------------------------------------------------------
\* ReadValue
\* ------------------------------------------------------------------------

\* ReadValue without the lookup in s.cache: every read that misses the
\* deltas goes to the ledger.
ReadValue_skipCache(d, c, l, storageKey, ledgerFails) ==
    IF storageKey \in DOMAIN d THEN
        [cache |-> c, status |-> "ok",
         ret |-> IF d[storageKey] = Nil THEN NilValue
                 ELSE NewSomeValueNonCopying(d[storageKey]),
         calls |-> << >>, metrics |-> << >>]
    ELSE IF ledgerFails THEN
        [cache |-> c, status |-> "panic", ret |-> NilValue,
         calls |-> << LedgerCall("get_value", storageKey, << >>, FALSE) >>,
         metrics |-> << >>]
    ELSE
        LET storedData == LedgerGetValue(l, storageKey)
            call == LedgerCall("get_value", storageKey, storedData, TRUE)
        IN  IF Len(storedData) = 0 THEN
                [cache |-> MapSet(c, storageKey, Nil), status |-> "ok",
                 ret |-> NilValue, calls |-> << call >>, metrics |-> << >>]
            ELSE IF Decode(storedData) = DecodeError THEN
                [cache |-> c, status |-> "panic", ret |-> NilValue,
                 calls |-> << call >>, metrics |-> << "ValueDecoded" >>]
            ELSE
                LET value == Decode(storedData)
                IN  [cache |-> MapSet(c, storageKey, value), status |-> "ok",
                     ret |-> NewSomeValueNonCopying(value),
                     calls |-> << call >>, metrics |-> << "ValueDecoded" >>]

\* ReadValue with the two local lookups exchanged: s.cache is consulted
\* before s.deltas.
ReadValue_cacheFirst(d, c, l, storageKey, ledgerFails) ==
    IF storageKey \in DOMAIN c THEN
        [cache |-> c, status |-> "ok",
         ret |-> IF c[storageKey] = Nil THEN NilValue
                 ELSE NewSomeValueNonCopying(c[storageKey]),
         calls |-> << >>, metrics |-> << >>]
    ELSE ReadValue_skipCache(d, c, l, storageKey, ledgerFails)

\* ReadValue that does not record a key the ledger holds no bytes for.
ReadValue_noNegativeCache(d, c, l, storageKey, ledgerFails) ==
    IF storageKey \in DOMAIN d THEN
        [cache |-> c, status |-> "ok",
         ret |-> IF d[storageKey] = Nil THEN NilValue
                 ELSE NewSomeValueNonCopying(d[storageKey]),
         calls |-> << >>, metrics |-> << >>]
    ELSE IF storageKey \in DOMAIN c THEN
        [cache |-> c, status |-> "ok",
         ret |-> IF c[storageKey] = Nil THEN NilValue
                 ELSE NewSomeValueNonCopying(c[storageKey]),
         calls |-> << >>, metrics |-> << >>]
    ELSE IF ledgerFails THEN
        [cache |-> c, status |-> "panic", ret |-> NilValue,
         calls |-> << LedgerCall("get_value", storageKey, << >>, FALSE) >>,
         metrics |-> << >>]
    ELSE
        LET storedData == LedgerGetValue(l, storageKey)
            call == LedgerCall("get_value", storageKey, storedData, TRUE)
        IN  IF Len(storedData) = 0 THEN
                [cache |-> c, status |-> "ok",
                 ret |-> NilValue, calls |-> << call >>, metrics |-> << >>]
            ELSE IF Decode(storedData) = DecodeError THEN
                [cache |-> c, status |-> "panic", ret |-> NilValue,
                 calls |-> << call >>, metrics |-> << "ValueDecoded" >>]
            ELSE
                LET value == Decode(storedData)
                IN  [cache |-> MapSet(c, storageKey, value), status |-> "ok",
                     ret |-> NewSomeValueNonCopying(value),
                     calls |-> << call >>, metrics |-> << "ValueDecoded" >>]

\* ReadValue that copies the deltas entry it answers from into s.cache.
ReadValue_cacheDelta(d, c, l, storageKey, ledgerFails) ==
    IF storageKey \in DOMAIN d THEN
        [cache |-> MapSet(c, storageKey, d[storageKey]), status |-> "ok",
         ret |-> IF d[storageKey] = Nil THEN NilValue
                 ELSE NewSomeValueNonCopying(d[storageKey]),
         calls |-> << >>, metrics |-> << >>]
    ELSE IF storageKey \in DOMAIN c THEN
        [cache |-> c, status |-> "ok",
         ret |-> IF c[storageKey] = Nil THEN NilValue
                 ELSE NewSomeValueNonCopying(c[storageKey]),
         calls |-> << >>, metrics |-> << >>]
    ELSE IF ledgerFails THEN
        [cache |-> c, status |-> "panic", ret |-> NilValue,
         calls |-> << LedgerCall("get_value", storageKey, << >>, FALSE) >>,
         metrics |-> << >>]
    ELSE
        LET storedData == LedgerGetValue(l, storageKey)
            call == LedgerCall("get_value", storageKey, storedData, TRUE)
        IN  IF Len(storedData) = 0 THEN
                [cache |-> MapSet(c, storageKey, Nil), status |-> "ok",
                 ret |-> NilValue, calls |-> << call >>, metrics |-> << >>]
            ELSE IF Decode(storedData) = DecodeError THEN
                [cache |-> c, status |-> "panic", ret |-> NilValue,
                 calls |-> << call >>, metrics |-> << "ValueDecoded" >>]
            ELSE
                LET value == Decode(storedData)
                IN  [cache |-> MapSet(c, storageKey, value), status |-> "ok",
                     ret |-> NewSomeValueNonCopying(value),
                     calls |-> << call >>, metrics |-> << "ValueDecoded" >>]

ReadValue(d, c, l, storageKey, ledgerFails) ==
    IF storageKey \in DOMAIN d THEN
        [cache |-> c, status |-> "ok",
         ret |-> IF d[storageKey] = Nil THEN NilValue
                 ELSE NewSomeValueNonCopying(d[storageKey]),
         calls |-> << >>, metrics |-> << >>]
    ELSE IF storageKey \in DOMAIN c THEN
        [cache |-> c, status |-> "ok",
         ret |-> IF c[storageKey] = Nil THEN NilValue
                 ELSE NewSomeValueNonCopying(c[storageKey]),
         calls |-> << >>, metrics |-> << >>]
    ELSE IF ledgerFails THEN
        [cache |-> c, status |-> "panic", ret |-> NilValue,
         calls |-> << LedgerCall("get_value", storageKey, << >>, FALSE) >>,
         metrics |-> << >>]
    ELSE
        LET storedData == LedgerGetValue(l, storageKey)
            call == LedgerCall("get_value", storageKey, storedData, TRUE)
        IN  IF Len(storedData) = 0 THEN
                [cache |-> MapSet(c, storageKey, Nil), status |-> "ok",
                 ret |-> NilValue, calls |-> << call >>, metrics |-> << >>]
            ELSE IF Decode(storedData) = DecodeError THEN
                [cache |-> c, status |-> "panic", ret |-> NilValue,
                 calls |-> << call >>, metrics |-> << "ValueDecoded" >>]
            ELSE
                LET value == Decode(storedData)
                IN  [cache |-> MapSet(c, storageKey, value), status |-> "ok",
                     ret |-> NewSomeValueNonCopying(value),
                     calls |-> << call >>, metrics |-> << "ValueDecoded" >>]

\* ------------------------------------------------------------------------
\* WriteValue, recordContractUpdate
\* ------------------------------------------------------------------------

\* WriteValue that starts s.deltas afresh with the written entry.
WriteValue_dropOthers(d, storageKey, value) ==
    LET writtenValue == IF value = NilValue THEN Nil ELSE value[1]
    IN  [x \in {storageKey} |-> writtenValue]

\* WriteValue that keeps an entry already in s.deltas instead of
\* overwriting it.
WriteValue_keepFirst(d, storageKey, value) ==
    LET writtenValue == IF value = NilValue THEN Nil ELSE value[1]
    IN  IF storageKey \in DOMAIN d THEN d ELSE MapSet(d, storageKey, writtenValue)

\* WriteValue that also buffers a deletion for every key that has no
\* deltas entry yet.
WriteValue_touchAll(d, storageKey, value) ==
    LET v == IF value = NilValue THEN Nil ELSE value[1]
    IN  [k \in StorageKeys |->
            IF k = storageKey THEN v
            ELSE IF k \in DOMAIN d THEN d[k] ELSE Nil]

\* s.deltas after WriteValue(address, key, value).
WriteValue(d, storageKey, value) ==
    LET writtenValue == IF value = NilValue THEN Nil ELSE value[1]
    IN  MapSet(d, storageKey, writtenValue)

\* recordContractUpdate that starts s.contractUpdates afresh with the
\* recorded entry.
recordContractUpdate_dropOthers(u, storageKey, contract) ==
    [x \in {storageKey} |-> contract]

\* s.contractUpdates after recordContractUpdate(address, key, contract).
recordContractUpdate(u, storageKey, contract) == MapSet(u, storageKey, contract)

\* ------------------------------------------------------------------------
\* Commit
\* ------------------------------------------------------------------------

accountStorageEntry(storageKey, value) == [storageKey |-> storageKey, value |-> value]

\* The two range loops of Commit: the deltas in the order dOrder visits
\* them, then the contract updates in the order uOrder visits them.
accountStorageEntries(d, u, dOrder, uOrder) ==
    [i \in 1..Len(dOrder) |-> accountStorageEntry(dOrder[i], d[dOrder[i]])]
    \o [i \in 1..Len(uOrder) |-> accountStorageEntry(uOrder[i], u[uOrder[i]])]

\* The comparison function Commit hands to sort.Slice.
less(a, b) ==
    IF a.Address < b.Address THEN TRUE
    ELSE IF a.Key < b.Key THEN TRUE
    ELSE FALSE

Swap(data, i, j) == [data EXCEPT ![i] = data[j], ![j] = data[i]]

\* sort.Slice on a slice of at most 12 elements is an insertion sort (on
\* older Go releases preceded by a pass with gap 6, which does nothing on
\* the at most 4 entries of this model).
RECURSIVE insertDown(_, _)
insertDown(data, j) ==
    IF j > 1 /\ less(data[j].storageKey, data[j - 1].storageKey)
    THEN insertDown(Swap(data, j, j - 1), j - 1)
    ELSE data

RECURSIVE insertionSort(_, _)
insertionSort(data, i) ==
    IF i > Len(data) THEN data
    ELSE insertionSort(insertDown(data, i), i + 1)

sortSlice(data) == insertionSort(data, 2)

\* What the host makes fail for the entry at each position of the sorted
\* slice: nothing, entry.value.Storable, the encoding (storable.Encode or
\* encoder.CBOR.Flush, both after the metric report) or Ledger.SetValue.
FaultKinds == {"ok", "storable", "encode", "set_value"}

FaultPlans(n) ==
    {p \in [1..n -> FaultKinds] :
        Cardinality({i \in 1..n : p[i] # "ok"}) <= MaxFaults}

CommitState(l, calls, metrics, err) ==
    [ledger |-> l, calls |-> calls, metrics |-> metrics, err |-> err]

\* The loop over the sorted entries that goes on with the next entry after
\* a failed SetValue and returns the error at the end.
RECURSIVE writeEntries_continue(_, _, _, _, _, _)
writeEntries_continue(entries, i, plan, l, calls, metrics) ==
    IF i > Len(entries) THEN CommitState(l, calls, metrics, NoError)
    ELSE
        LET entry == entries[i]
            k == entry.storageKey
            encodes == entry.value # Nil
            encoded == IF encodes THEN Encode(entry.value) ELSE << >>
            reported == IF encodes THEN Append(metrics, "ValueEncoded") ELSE metrics
        IN  IF encodes /\ plan[i] = "storable" THEN
                CommitState(l, calls, metrics, Error("storable", k, i))
            ELSE IF encodes /\ plan[i] = "encode" THEN
                CommitState(l, calls, reported, Error("encode", k, i))
            ELSE IF plan[i] = "set_value" THEN
                LET rest == writeEntries_continue(
                                entries, i + 1, plan, l,
                                Append(calls, LedgerCall("set_value", k, encoded, FALSE)),
                                reported)
                IN  CommitState(rest.ledger, rest.calls, rest.metrics,
                                Error("set_value", k, i))
            ELSE
                writeEntries_continue(
                    entries, i + 1, plan,
                    LedgerSetValue(l, k, encoded),
                    Append(calls, LedgerCall("set_value", k, encoded, TRUE)),
                    reported)

\* The loop over the sorted entries with the encoding report made for every
\* entry, a deletion included.
RECURSIVE writeEntries_reportDeletions(_, _, _, _, _, _)
writeEntries_reportDeletions(entries, i, plan, l, calls, metrics) ==
    IF i > Len(entries) THEN CommitState(l, calls, metrics, NoError)
    ELSE
        LET entry == entries[i]
            k == entry.storageKey
            encodes == entry.value # Nil
            encoded == IF encodes THEN Encode(entry.value) ELSE << >>
            reported == Append(metrics, "ValueEncoded")
        IN  IF encodes /\ plan[i] = "storable" THEN
                CommitState(l, calls, metrics, Error("storable", k, i))
            ELSE IF encodes /\ plan[i] = "encode" THEN
                CommitState(l, calls, reported, Error("encode", k, i))
            ELSE IF plan[i] = "set_value" THEN
                CommitState(l,
                            Append(calls, LedgerCall("set_value", k, encoded, FALSE)),
                            reported, Error("set_value", k, i))
            ELSE
                writeEntries_reportDeletions(
                    entries, i + 1, plan,
                    LedgerSetValue(l, k, encoded),
                    Append(calls, LedgerCall("set_value", k, encoded, TRUE)),
                    reported)

\* The loop over the sorted entries, from position i on.
RECURSIVE writeEntries(_, _, _, _, _, _)
writeEntries(entries, i, plan, l, calls, metrics) ==
    IF i > Len(entries) THEN CommitState(l, calls, metrics, NoError)
    ELSE
        LET entry == entries[i]
            k == entry.storageKey
            encodes == entry.value # Nil
            encoded == IF encodes THEN Encode(entry.value) ELSE << >>
            reported == IF encodes THEN Append(metrics, "ValueEncoded") ELSE metrics
        IN  IF encodes /\ plan[i] = "storable" THEN
                CommitState(l, calls, metrics, Error("storable", k, i))
            ELSE IF encodes /\ plan[i] = "encode" THEN
                CommitState(l, calls, reported, Error("encode", k, i))
            ELSE IF plan[i] = "set_value" THEN
                CommitState(l,
                            Append(calls, LedgerCall("set_value", k, encoded, FALSE)),
                            reported, Error("set_value", k, i))
            ELSE
                writeEntries(entries, i + 1, plan,
                             LedgerSetValue(l, k, encoded),
                             Append(calls, LedgerCall("set_value", k, encoded, TRUE)),
                             reported)

\* Commit that commits the slab store before it writes the account
\* storage entries.
Commit_slabFirst(d, u, l, dOrder, uOrder, plan, slabFails) ==
    LET entries == sortSlice(accountStorageEntries(d, u, dOrder, uOrder))
        slabCall == LedgerCall("FastCommit", NoKey, << >>, ~slabFails)
    IN  IF slabFails
        THEN CommitState(l, << slabCall >>, << >>, Error("FastCommit", NoKey, 0))
        ELSE writeEntries(entries, 1, plan, l, << slabCall >>, << >>)

\* Commit that undoes the writes of its earlier entries when an entry
\* fails.
Commit_rollback(d, u, l, dOrder, uOrder, plan, slabFails) ==
    LET entries == sortSlice(accountStorageEntries(d, u, dOrder, uOrder))
        written_ == writeEntries(entries, 1, plan, l, << >>, << >>)
    IN  IF written_.err # NoError
        THEN CommitState(l, written_.calls, written_.metrics, written_.err)
        ELSE CommitState(written_.ledger,
                         Append(written_.calls,
                                LedgerCall("FastCommit", NoKey, << >>, ~slabFails)),
                         written_.metrics,
                         IF slabFails THEN Error("FastCommit", NoKey, 0) ELSE NoError)

\* Commit on the maps d and u over the ledger l; slabFails is the slab
\* store's FastCommit failing.
Commit(d, u, l, dOrder, uOrder, plan, slabFails) ==
    LET entries == sortSlice(accountStorageEntries(d, u, dOrder, uOrder))
        written_ == writeEntries(entries, 1, plan, l, << >>, << >>)
    IN  IF written_.err # NoError THEN written_
        ELSE CommitState(written_.ledger,
                         Append(written_.calls,
                                LedgerCall("FastCommit", NoKey, << >>, ~slabFails)),
                         written_.metrics,
                         IF slabFails THEN Error("FastCommit", NoKey, 0) ELSE NoError)

\* ------------------------------------------------------------------------
\* The memory gauge (testMemoryGauge): a uint64 total per memory kind
\* ------------------------------------------------------------------------

\* A uint64 is held as its limbs of LimbBits bits, least significant first.
Uint64Bits == 64

LimbBits == 16

Limbs == Uint64Bits \div LimbBits

Base == 2 ^ LimbBits

Uint64(n) == [i \in 1..Limbs |-> IF i = 1 THEN n ELSE 0]

MaxUint64 == [i \in 1..Limbs |-> Base - 1]

\* The carry into limb i of the sum of a and b.
RECURSIVE CarryInto(_, _, _)
CarryInto(a, b, i) ==
    IF i = 1 THEN 0
    ELSE (a[i - 1] + b[i - 1] + CarryInto(a, b, i - 1)) \div Base

\* The sum of two numbers of n limbs, in n limbs: the carry out of the last
\* limb is dropped.
AddLimbs(a, b, n) == [i \in 1..n |-> (a[i] + b[i] + CarryInto(a, b, i)) % Base]

\* current + usage.Amount on uint64.
AddUint64(a, b) == AddLimbs(a, b, Limbs)

\* common.MemoryUsage.
MemoryKinds == {"MemoryKindArray", "MemoryKindDictionary"}

Amounts == {Uint64(1), Uint64(2), MaxUint64}

MemoryUsage(kind, amount) == [Kind |-> kind, Amount |-> amount]

\* UseMemory that stores the reported amount in place of the total.
UseMemory_overwrite(m, usage) == MapSet(m, usage.Kind, usage.Amount)

\* g.meter after UseMemory(usage).
UseMemory(m, usage) ==
    LET ok == usage.Kind \in DOMAIN m
        current == IF ok THEN m[usage.Kind] ELSE Uint64(0)
    IN  MapSet(m, usage.Kind, AddUint64(current, usage.Amount))

\* getMemory(kind): the zero value for a kind the map has no entry for.
getMemory(m, kind) == IF kind \in DOMAIN m THEN m[kind] ELSE Uint64(0)

\* ------------------------------------------------------------------------
\* The REPL
\* ------------------------------------------------------------------------

\* A callback is nil or a function of the host.
Callbacks == {Nil, 1}

\* An element of the parsed code: a declaration or a statement, the number
\* of errors the checker reports on it, and the value of the expression
\* statement result its execution gives (Nil when it gives none).
Element(kind, errors, value) == [kind |-> kind, errors |-> errors, value |-> value]

Elements ==
    {Element("Declaration", 0, Nil), Element("Declaration", 1, Nil),
     Element("Statement", 0, Nil), Element("Statement", 0, 1),
     Element("Statement", 1, 1)}

ElementLists == UNION {[1..n -> Elements] : n \in 0..MaxElements}

\* What parser.ParseReplInput returns: result, inputIsComplete, err.
ParseResults ==
    [result : ElementLists, inputIsComplete : BOOLEAN, err : {Nil, 1}]

\* The REPL fields.  The checker is its accumulated errors and its Program.
REPL(errors, program, inter, onError, onResult) ==
    [checker |-> [errors |-> errors, Program |-> program],
     inter |-> inter, onError |-> onError, onResult |-> onResult]

\* One thing Accept did: the call, the position of the element it was for
\* (0 when it was for none) and what the call was given or answered.
Event(call, element, arg) == [call |-> call, element |-> element, arg |-> arg]

\* How an Accept ended: by returning inputIsComplete, or in the panic of a
\* call of a nil function.
Returned(inputIsComplete) == [status |-> "return", inputIsComplete |-> inputIsComplete]

Panicked == [status |-> "panic", inputIsComplete |-> FALSE]

Accepted(r, ev, end) == [repl |-> r, events |-> ev, end |-> end]

\* r.checker.ResetErrors().
ResetErrors(r) == [r EXCEPT !.checker.errors = 0]

\* element.Accept(r.checker): the checker adds the errors it finds.
checkElement(r, element) ==
    [r EXCEPT !.checker.errors = @ + element.errors,
              !.checker.Program = IF element.kind = "Statement" THEN Nil ELSE @]

\* r.checker.CheckerError().
CheckerError(r) == IF r.checker.errors = 0 THEN Nil ELSE 1

\* The loop over the elements with the return after a failed check left
\* out: the element is executed all the same and the loop goes on.
RECURSIVE acceptElements_noReturn(_, _, _, _)
acceptElements_noReturn(r, result, i, ev) ==
    IF i > Len(result) THEN Accepted(r, ev, Returned(TRUE))
    ELSE
        LET element == result[i]
            checked == checkElement(r, element)
            err == CheckerError(checked)
            evCheck == Append(ev, Event("check", i, err))
            evError == IF err # Nil /\ r.onError # Nil
                       THEN Append(evCheck, Event("onError", i, err))
                       ELSE evCheck
            evRun == Append(evError, Event("execute", i, element.value))
        IN  acceptElements_noReturn(
                [checked EXCEPT !.inter = @ + 1], result, i + 1,
                IF element.value # Nil /\ r.onResult # Nil
                THEN Append(evRun, Event("onResult", i, element.value))
                ELSE evRun)

\* The loop of Accept over the elements, from position i on: check, then
\* execute.
RECURSIVE acceptElements(_, _, _, _)
acceptElements(r, result, i, ev) ==
    IF i > Len(result) THEN Accepted(r, ev, Returned(TRUE))
    ELSE
        LET element == result[i]
            checked == checkElement(r, element)
            err == CheckerError(checked)
            evCheck == Append(ev, Event("check", i, err))
        IN  IF err # Nil THEN
                Accepted(checked,
                         IF r.onError # Nil
                         THEN Append(evCheck, Event("onError", i, err))
                         ELSE evCheck,
                         Returned(TRUE))
            ELSE
                LET evRun == Append(evCheck, Event("execute", i, element.value))
                IN  acceptElements(
                        [checked EXCEPT !.inter = @ + 1], result, i + 1,
                        IF element.value # Nil /\ r.onResult # Nil
                        THEN Append(evRun, Event("onResult", i, element.value))
                        ELSE evRun)

\* Accept that resets the checker's errors before it looks at what the
\* parser returned.
Accept_resetFirst(r, p) ==
    IF ~p.inputIsComplete THEN Accepted(ResetErrors(r), << >>, Returned(FALSE))
    ELSE IF p.err # Nil THEN
        Accepted(r, << Event("onError", 0, p.err) >>,
                 IF r.onError = Nil THEN Panicked ELSE Returned(TRUE))
    ELSE acceptElements(ResetErrors(r), p.result, 1,
                        << Event("ResetErrors", 0, Nil) >>)

\* Accept(code), p being what the parser returns for code.
Accept(r, p) ==
    IF ~p.inputIsComplete THEN Accepted(r, << >>, Returned(FALSE))
    ELSE IF p.err # Nil THEN
        Accepted(r, << Event("onError", 0, p.err) >>,
                 IF r.onError = Nil THEN Panicked ELSE Returned(TRUE))
    ELSE acceptElements(ResetErrors(r), p.result, 1,
                        << Event("ResetErrors", 0, Nil) >>)

\* ------------------------------------------------------------------------
\* The state machine
\* ------------------------------------------------------------------------

NoLoads == [k \in StorageKeys |-> 0]

\* A Storage as NewStorage returns it over the ledger l.
NewStorage(l) ==
    /\ ledger = l
    /\ deltas = EmptyMap
    /\ cache = EmptyMap
    /\ contractUpdates = EmptyMap
    /\ last = Result("NewStorage", NoKey, "ok", NilValue, FALSE, NoError)
    /\ ledgerCalls = << >>
    /\ metricCalls = << >>
    /\ ledgerBefore = ledger
    /\ written = EmptyMap
    /\ loads = NoLoads
    /\ committed = FALSE
    /\ ops = 0

\* A gauge as newTestMemoryGauge returns it.
newTestMemoryGauge ==
    /\ meter = EmptyMap
    /\ meterBefore = EmptyMap
    /\ usages = << >>

\* What is recorded of a parse: the two flags and the number of elements.
Parsed(p) ==
    [inputIsComplete |-> p.inputIsComplete, err |-> p.err, elements |-> Len(p.result)]

\* A REPL as NewREPL returns it for the two callbacks.
NewREPL(onError, onResult) ==
    /\ repl = REPL(0, Nil, 0, onError, onResult)
    /\ events = << >>
    /\ accepted = Returned(FALSE)
    /\ parsed = [inputIsComplete |-> FALSE, err |-> Nil, elements |-> 0]
    /\ accepts = 0

Init ==
    /\ \E l \in SeededLedgers : NewStorage(l)
    /\ newTestMemoryGauge
    /\ NewREPL(1, 1)

\* A new transaction: the Storage is discarded and NewStorage creates one
\* over the ledger the previous one left.
NewStorageStep ==
    /\ ops < MaxOps
    /\ last.op # "NewStorage"
    /\ deltas' = EmptyMap
    /\ cache' = EmptyMap
    /\ contractUpdates' = EmptyMap
    /\ last' = Result("NewStorage", NoKey, "ok", NilValue, FALSE, NoError)
    /\ ledgerCalls' = << >>
    /\ metricCalls' = << >>
    /\ ledgerBefore' = ledger
    /\ written' = EmptyMap
    /\ loads' = NoLoads
    /\ committed' = FALSE
    /\ UNCHANGED << ledger, ops >>
    /\ UNCHANGED << gaugeVars, replVars >>

ValueExistsStep ==
    /\ ops < MaxOps
    /\ \E storageKey \in StorageKeys, ledgerFails \in BOOLEAN :
        LET r == ValueExists(deltas, cache, ledger, storageKey, ledgerFails)
        IN  /\ cache' = r.cache
            /\ last' = Result("ValueExists", storageKey, r.status, NilValue,
                              r.exists, NoError)
            /\ ledgerCalls' = r.calls
    /\ metricCalls' = << >>
    /\ ledgerBefore' = ledger
    /\ ops' = ops + 1
    /\ UNCHANGED << ledger, deltas, contractUpdates, written, loads, committed >>
    /\ UNCHANGED << gaugeVars, replVars >>

ReadValueStep ==
    /\ ops < MaxOps
    /\ \E storageKey \in StorageKeys, ledgerFails \in BOOLEAN :
        LET r == ReadValue(deltas, cache, ledger, storageKey, ledgerFails)
        IN  /\ cache' = r.cache
            /\ last' = Result("ReadValue", storageKey, r.status, r.ret,
                              FALSE, NoError)
            /\ ledgerCalls' = r.calls
            /\ metricCalls' = r.metrics
            /\ loads' = IF r.status = "ok" /\ r.calls # << >>
                        THEN [loads EXCEPT ![storageKey] = @ + 1]
                        ELSE loads
    /\ ledgerBefore' = ledger
    /\ ops' = ops + 1
    /\ UNCHANGED << ledger, deltas, contractUpdates, written, committed >>
    /\ UNCHANGED << gaugeVars, replVars >>

WriteValueStep ==
    /\ ops < MaxOps
    /\ \E storageKey \in StorageKeys, value \in OptionalValues :
        /\ deltas' = WriteValue(deltas, storageKey, value)
        /\ written' = MapSet(written, storageKey, value)
        /\ last' = Result("WriteValue", storageKey, "ok", NilValue, FALSE, NoError)
    /\ ledgerCalls' = << >>
    /\ metricCalls' = << >>
    /\ ledgerBefore' = ledger
    /\ ops' = ops + 1
    /\ UNCHANGED << ledger, cache, contractUpdates, loads, committed >>
    /\ UNCHANGED << gaugeVars, replVars >>

recordContractUpdateStep ==
    /\ ops < MaxOps
    /\ \E storageKey \in StorageKeys, contract \in Values \cup {Nil} :
        /\ contractUpdates' = recordContractUpdate(contractUpdates, storageKey, contract)
        /\ last' = Result("recordContractUpdate", storageKey, "ok", NilValue,
                          FALSE, NoError)
    /\ ledgerCalls' = << >>
    /\ metricCalls' = << >>
    /\ ledgerBefore' = ledger
    /\ ops' = ops + 1
    /\ UNCHANGED << ledger, deltas, cache, written, loads, committed >>
    /\ UNCHANGED << gaugeVars, replVars >>

CommitStep ==
    /\ ops < MaxOps
    /\ \E dOrder \in IterationOrders(deltas),
          uOrder \in IterationOrders(contractUpdates),
          slabFails \in BOOLEAN :
        \E plan \in FaultPlans(Len(dOrder) + Len(uOrder)) :
            LET r == Commit(deltas, contractUpdates, ledger, dOrder, uOrder,
                            plan, slabFails)
            IN  /\ ledger' = r.ledger
                /\ ledgerCalls' = r.calls
                /\ metricCalls' = r.metrics
                /\ last' = Result("Commit", NoKey,
                                  IF r.err = NoError THEN "ok" ELSE "error",
                                  NilValue, FALSE, r.err)
    /\ ledgerBefore' = ledger
    /\ committed' = TRUE
    /\ ops' = ops + 1
    /\ UNCHANGED << deltas, cache, contractUpdates, written, loads >>
    /\ UNCHANGED << gaugeVars, replVars >>

Next ==
    \/ NewStorageStep
    \/ ValueExistsStep
    \/ ReadValueStep
    \/ WriteValueStep
    \/ recordContractUpdateStep
    \/ CommitStep

Spec == Init /\ [][Next]_vars

\* The gauge on its own: UseMemory reports, up to MaxUsages of them.
EmptyLedger == [k \in StorageKeys |-> << >>]

GaugeInit ==
    /\ NewStorage(EmptyLedger)
    /\ newTestMemoryGauge
    /\ NewREPL(1, 1)

UseMemoryStep ==
    /\ Len(usages) < MaxUsages
    /\ \E kind \in MemoryKinds, amount \in Amounts :
        LET usage == MemoryUsage(kind, amount)
        IN  /\ meter' = UseMemory(meter, usage)
            /\ usages' = Append(usages, usage)
    /\ meterBefore' = meter
    /\ UNCHANGED << storageVars, replVars >>

GaugeNext == UseMemoryStep

GaugeSpec == GaugeInit /\ [][GaugeNext]_vars

\* The REPL on its own: Accept calls, up to MaxAccepts of them, on a REPL
\* created with any callbacks.  A panic ends the run.
REPLInit ==
    /\ NewStorage(EmptyLedger)
    /\ newTestMemoryGauge
    /\ \E onError \in Callbacks, onResult \in Callbacks : NewREPL(onError, onResult)

AcceptStep ==
    /\ accepts < MaxAccepts
    /\ accepted.status # "panic"
    /\ \E p \in ParseResults :
        LET a == Accept(repl, p)
        IN  /\ repl' = a.repl
            /\ events' = a.events
            /\ accepted' = a.end
            /\ parsed' = Parsed(p)
    /\ accepts' = accepts + 1
    /\ UNCHANGED << storageVars, gaugeVars >>

REPLNext == AcceptStep

REPLSpec == REPLInit /\ [][REPLNext]_vars

\* ------------------------------------------------------------------------
\* Properties
\* ------------------------------------------------------------------------

\* The account set_value calls of the last operation, in the order issued.
SetValueCalls == SelectSeq(ledgerCalls, LAMBDA c : c.call = "set_value")

\* The total order of storage keys: address first, then key.
KeyBefore(a, b) ==
    \/ a.Address < b.Address
    \/ a.Address = b.Address /\ a.Key < b.Key

CommitRan == last.op = "Commit"

CommitSucceeded == last.op = "Commit" /\ last.status = "ok"

CommitFailed == last.op = "Commit" /\ last.status = "error"

\* C1: the set_value calls of every Commit are issued in ascending
\* (address, key) order: no call is issued after a call for a greater key.
C1_CommitOrderAscending ==
    CommitRan =>
        \A i, j \in 1..Len(SetValueCalls) :
            i < j => ~KeyBefore(SetValueCalls[j].key, SetValueCalls[i].key)

\* The calls a fault-free Commit of the maps d and u issues over the ledger
\* l when the maps are visited in the orders dOrder and uOrder.
CallsOf(d, u, l, dOrder, uOrder) ==
    Commit(d, u, l, dOrder, uOrder,
           [i \in 1..(Len(dOrder) + Len(uOrder)) |-> "ok"], FALSE).calls

\* C2: Commit is deterministic: the calls a successful Commit issued are
\* the calls every Storage holding the same deltas and contract updates
\* issues over the same ledger, whatever order its maps are visited in.
C2_CommitDeterministic ==
    CommitSucceeded =>
        \A dOrder \in IterationOrders(deltas),
           uOrder \in IterationOrders(contractUpdates) :
            CallsOf(deltas, contractUpdates, ledgerBefore, dOrder, uOrder)
                = ledgerCalls

\* C3: one Commit calls set_value at most once for any key.
C3_SetValueAtMostOncePerKey ==
    CommitRan =>
        \A i, j \in 1..Len(SetValueCalls) :
            i # j => SetValueCalls[i].key # SetValueCalls[j].key

\* The OptionalValue a WriteValue argument reads back as.
Optional(v) == IF v = Nil THEN NilValue ELSE NewSomeValueNonCopying(v)

\* C4: a ReadValue of a key written on this Storage returns the argument of
\* the last WriteValue on that key, and the deltas hold exactly one entry
\* per written key, that of the last write.
C4_ReadYourWrites ==
    /\ DOMAIN deltas = DOMAIN written
    /\ \A k \in DOMAIN written : Optional(deltas[k]) = written[k]
    /\ (last.op = "ReadValue" /\ last.key \in DOMAIN written) =>
            last.status = "ok" /\ last.ret = written[last.key]

\* A read of a written key whose cache entry holds something else.
C4_Witness ==
    /\ last.op = "ReadValue"
    /\ last.key \in DOMAIN written
    /\ last.key \in DOMAIN cache
    /\ Optional(cache[last.key]) # written[last.key]
    /\ last.ret = written[last.key]

\* What a new Storage over the current ledger answers for k.
FreshRead(k) == ReadValue(EmptyMap, EmptyMap, ledger, k, FALSE)

FreshExists(k) == ValueExists(EmptyMap, EmptyMap, ledger, k, FALSE)

\* C5: after a successful Commit, a new Storage over the same ledger reads
\* back Some(v) for every key whose last write was Some(v).
C5_PersistenceRoundTrip ==
    CommitSucceeded =>
        \A k \in DOMAIN written :
            written[k] # NilValue =>
                FreshRead(k).status = "ok" /\ FreshRead(k).ret = written[k]

\* C6: for a key the ledger held a value for, a write of None followed by a
\* successful Commit issues set_value with empty bytes for the key, and a
\* new Storage over the same ledger sees the key absent.
C6_DeletionPersists ==
    CommitSucceeded =>
        \A k \in DOMAIN written :
            (written[k] = NilValue /\ Len(ledgerBefore[k]) > 0) =>
                /\ \E i \in 1..Len(SetValueCalls) :
                        SetValueCalls[i].key = k /\ SetValueCalls[i].bytes = << >>
                /\ FreshExists(k).exists = FALSE
                /\ FreshRead(k).ret = NilValue

EntryErrors == {"storable", "encode", "set_value"}

\* C7 as stated: a Commit that returns the error of a failing encoding or
\* set_value leaves the ledger as it found it.
C7_CommitAllOrNothing ==
    (CommitFailed /\ last.err.kind \in EntryErrors) => ledger = ledgerBefore

\* The ledger l after the successful ones among calls, from position i on.
RECURSIVE ApplyCalls(_, _, _)
ApplyCalls(l, calls, i) ==
    IF i > Len(calls) THEN l
    ELSE ApplyCalls(IF calls[i].ok
                    THEN [l EXCEPT ![calls[i].key] = calls[i].bytes]
                    ELSE l,
                    calls, i + 1)

\* C7, amended: a Commit that returns the error of a failing encoding or
\* set_value leaves in the ledger exactly the writes of its set_value calls
\* that returned successfully before the error; it undoes none of them, and
\* writes nothing for the failing entry or the entries after it.
C7_FailedCommitKeepsIssuedWrites ==
    (CommitFailed /\ last.err.kind \in EntryErrors) =>
        /\ ledger = ApplyCalls(ledgerBefore, SetValueCalls, 1)
        /\ \A i \in 1..Len(SetValueCalls) :
                SetValueCalls[i].ok <=> i < last.err.pos

\* A Commit that failed at a later entry and left the write of an earlier
\* one in the ledger.
C7_Witness ==
    /\ CommitFailed
    /\ last.err.kind \in EntryErrors
    /\ last.err.pos > 1
    /\ ledger # ledgerBefore

\* C8: when the encoding or the set_value of an entry fails, Commit returns
\* the error of that entry, has issued set_value successfully for the
\* entries before it and for none after it, and has not invoked the slab
\* store's commit; a Commit that returns no error had no failing call.
C8_CommitStopsAtFirstError ==
    /\ (CommitFailed /\ last.err.kind \in EntryErrors) =>
            /\ ledgerCalls = SetValueCalls
            /\ Len(SetValueCalls) =
                    IF last.err.kind = "set_value" THEN last.err.pos
                    ELSE last.err.pos - 1
            /\ \A i \in 1..Len(SetValueCalls) :
                    SetValueCalls[i].ok <=> i < last.err.pos
            /\ last.err.kind = "set_value" =>
                    SetValueCalls[last.err.pos].key = last.err.key
    /\ CommitSucceeded =>
            \A i \in 1..Len(ledgerCalls) : ledgerCalls[i].ok

\* A Commit that failed on its first entry with further entries pending.
C8_Witness ==
    /\ CommitFailed
    /\ last.err.kind = "set_value"
    /\ last.err.pos = 1
    /\ Cardinality(DOMAIN deltas) + Cardinality(DOMAIN contractUpdates) > 1
    /\ Len(ledgerCalls) = 1

\* C9: ReadValue calls get_value only for a key that is in neither the
\* deltas nor the cache: at most one normally returning ReadValue per key
\* loads from the ledger, a ReadValue of a written key makes no ledger call,
\* and a ReadValue of a key already in the deltas or the cache makes none.
C9_ReadThroughCache ==
    /\ [](\A k \in StorageKeys : loads[k] <= 1)
    /\ [](last.op = "ReadValue" =>
            /\ Len(ledgerCalls) <= 1
            /\ \A i \in 1..Len(ledgerCalls) :
                    ledgerCalls[i].call = "get_value" /\ ledgerCalls[i].key = last.key
            /\ last.key \in DOMAIN written => ledgerCalls = << >>)
    /\ [][(/\ last'.op = "ReadValue"
           /\ ops' = ops + 1
           /\ last'.key \in (DOMAIN deltas) \cup (DOMAIN cache))
          => ledgerCalls' = << >>]_vars

\* A second read of a key the ledger holds a value for, served from the
\* cache the first read filled.
C9_Witness ==
    /\ last.op = "ReadValue"
    /\ last.status = "ok"
    /\ last.key \notin DOMAIN deltas
    /\ loads[last.key] = 1
    /\ ledgerCalls = << >>
    /\ last.ret # NilValue

\* C10: for a key present in both the deltas and the cache, ValueExists and
\* ReadValue answer from the deltas entry, without a ledger call.
C10_DeltaWinsOverCache ==
    /\ \A k \in (DOMAIN deltas) \cap (DOMAIN cache), f \in BOOLEAN :
        /\ ValueExists(deltas, cache, ledger, k, f).status = "ok"
        /\ ValueExists(deltas, cache, ledger, k, f).exists = (deltas[k] # Nil)
        /\ ValueExists(deltas, cache, ledger, k, f).calls = << >>
        /\ ReadValue(deltas, cache, ledger, k, f).status = "ok"
        /\ ReadValue(deltas, cache, ledger, k, f).ret = Optional(deltas[k])
        /\ ReadValue(deltas, cache, ledger, k, f).calls = << >>
    /\ last.key \in (DOMAIN deltas) \cap (DOMAIN cache) =>
        /\ last.op = "ValueExists" => last.exists = (deltas[last.key] # Nil)
        /\ last.op = "ReadValue" => last.ret = Optional(deltas[last.key])

\* A read of a key whose cached value and written value are two different
\* values.
C10_Witness ==
    /\ last.op = "ReadValue"
    /\ last.key \in (DOMAIN deltas) \cap (DOMAIN cache)
    /\ cache[last.key] # Nil
    /\ deltas[last.key] # Nil
    /\ cache[last.key] # deltas[last.key]
    /\ last.ret = Optional(deltas[last.key])

\* A step of the operation op.
StepOf(op) == last'.op = op /\ ops' = ops + 1

\* C11: WriteValue makes no ledger call and changes nothing but the deltas
\* entry of the written key: the cache, the contract updates, the ledger
\* and every other deltas entry stay as they were.
C11_WriteValueFrame ==
    [][StepOf("WriteValue") =>
        /\ ledgerCalls' = << >>
        /\ cache' = cache
        /\ contractUpdates' = contractUpdates
        /\ ledger' = ledger
        /\ DOMAIN deltas' = (DOMAIN deltas) \cup {last'.key}
        /\ \A k \in (DOMAIN deltas) \ {last'.key} : deltas'[k] = deltas[k]]_vars

\* A write next to a deltas entry of another key and a filled cache.
C11_Witness ==
    /\ last.op = "WriteValue"
    /\ (DOMAIN deltas) \ {last.key} # {}
    /\ DOMAIN cache # {}

\* C12: recordContractUpdate makes no ledger call and changes nothing but
\* the contract updates entry of its key, so ValueExists and ReadValue
\* answer for every key as they did before it.
C12_RecordContractUpdateFrame ==
    [][StepOf("recordContractUpdate") =>
        /\ ledgerCalls' = << >>
        /\ deltas' = deltas
        /\ cache' = cache
        /\ ledger' = ledger
        /\ DOMAIN contractUpdates' = (DOMAIN contractUpdates) \cup {last'.key}
        /\ \A k \in (DOMAIN contractUpdates) \ {last'.key} :
                contractUpdates'[k] = contractUpdates[k]
        /\ \A k \in StorageKeys, f \in BOOLEAN :
            /\ ValueExists(deltas', cache', ledger', k, f)
                    = ValueExists(deltas, cache, ledger, k, f)
            /\ ReadValue(deltas', cache', ledger', k, f)
                    = ReadValue(deltas, cache, ledger, k, f)]_vars

\* A contract update recorded next to one of another key and a written
\* key.
C12_Witness ==
    /\ last.op = "recordContractUpdate"
    /\ (DOMAIN contractUpdates) \ {last.key} # {}
    /\ DOMAIN deltas # {}

\* C13: a Commit that succeeds invokes the slab store's commit exactly
\* once, as its last call, after one successful set_value for every entry
\* of the deltas and the contract updates; no Commit issues a set_value
\* after the slab store's commit.
C13_AccountWritesBeforeSlabs ==
    /\ CommitSucceeded =>
        /\ Len(ledgerCalls) = Len(SetValueCalls) + 1
        /\ ledgerCalls[Len(ledgerCalls)].call = "FastCommit"
        /\ Len(SetValueCalls) =
                Cardinality(DOMAIN deltas) + Cardinality(DOMAIN contractUpdates)
        /\ \A i \in 1..(Len(ledgerCalls) - 1) :
                ledgerCalls[i].call = "set_value" /\ ledgerCalls[i].ok
        /\ \A k \in (DOMAIN deltas) \cup (DOMAIN contractUpdates) :
                \E i \in 1..Len(SetValueCalls) : SetValueCalls[i].key = k
    /\ CommitRan =>
        \A i, j \in 1..Len(ledgerCalls) :
            (i < j /\ ledgerCalls[i].call = "FastCommit")
                => ledgerCalls[j].call # "set_value"

\* A successful Commit of two entries.
C13_Witness ==
    /\ CommitSucceeded
    /\ Len(SetValueCalls) = 2
    /\ ledgerCalls[3].call = "FastCommit"

Reads == {"ValueExists", "ReadValue"}

\* C14 as stated: after a ReadValue that returns normally, the cache holds
\* an entry for the key read.
C14_ReadLeavesCacheEntry ==
    (last.op = "ReadValue" /\ last.status = "ok") => last.key \in DOMAIN cache

\* C14, amended: after a ReadValue that returns normally for a key that has
\* no entry in the deltas, the cache holds an entry for the key: the value
\* returned, or nil when None was returned.
C14_UnwrittenReadLeavesCacheEntry ==
    (last.op = "ReadValue" /\ last.status = "ok" /\ last.key \notin DOMAIN deltas) =>
        /\ last.key \in DOMAIN cache
        /\ Optional(cache[last.key]) = last.ret

\* A read that found no bytes in the ledger and recorded the absence.
C14_Witness ==
    /\ last.op = "ReadValue"
    /\ last.status = "ok"
    /\ last.key \notin DOMAIN deltas
    /\ Len(ledgerCalls) = 1
    /\ last.ret = NilValue
    /\ cache[last.key] = Nil

\* C15: a ValueExists or ReadValue that aborts (failed ledger call, failed
\* decoding) leaves the cache, the deltas and the contract updates as they
\* were; a nil cache entry appears only for the key of a ValueExists or
\* ReadValue that returned normally after the ledger answered, without
\* error, that it holds nothing for the key.
C15_NoNegativeCachingOnError ==
    [][/\ (last'.status = "panic" /\ ops' = ops + 1) =>
            /\ last'.op \in Reads
            /\ cache' = cache
            /\ deltas' = deltas
            /\ contractUpdates' = contractUpdates
       /\ \A k \in StorageKeys :
            (k \notin DOMAIN cache /\ k \in DOMAIN cache' /\ cache'[k] = Nil) =>
                /\ last'.op \in Reads
                /\ last'.key = k
                /\ last'.status = "ok"
                /\ Len(ledgerCalls') = 1
                /\ ledgerCalls'[1].ok
                /\ Len(ledger[k]) = 0]_vars

\* A ReadValue that aborted on bytes that do not decode.
C15_Witness ==
    /\ last.op = "ReadValue"
    /\ last.status = "panic"
    /\ Len(ledgerCalls) = 1
    /\ ledgerCalls[1].ok
    /\ last.key \notin DOMAIN cache

\* C16: after a successful Commit the deltas and the contract updates are
\* empty, and a Commit that follows a successful Commit issues no
\* set_value.
C16_CommitDrainsBuffer ==
    /\ [](CommitSucceeded =>
            DOMAIN deltas = {} /\ DOMAIN contractUpdates = {})
    /\ [][(CommitSucceeded /\ StepOf("Commit")) =>
            \A i \in 1..Len(ledgerCalls') : ledgerCalls'[i].call # "set_value"]_vars

\* C17: no operation on a Storage removes or changes an entry of its
\* cache.
C17_CacheEntriesStable ==
    [][last'.op # "NewStorage" =>
        \A k \in DOMAIN cache :
            k \in DOMAIN cache' /\ cache'[k] = cache[k]]_vars

\* A cache entry that outlived a Commit which replaced the bytes of its key.
C17_Witness ==
    /\ CommitSucceeded
    /\ \E k \in DOMAIN cache :
        /\ cache[k] # Nil
        /\ ledger[k] # Encode(cache[k])
        /\ ledgerBefore[k] = Encode(cache[k])

\* C18: ValueExists never changes the deltas; it answers from the deltas
\* entry if there is one, else from the cache entry if there is one, both
\* without a ledger call; else it calls value_exists once and, when that
\* returns, answers what the ledger answered, recording nil in the cache
\* for the key when the answer is false and leaving the cache alone when
\* it is true.
C18_ValueExistsLookupOrder ==
    [][StepOf("ValueExists") =>
        LET k == last'.key
            local == k \in (DOMAIN deltas) \cup (DOMAIN cache)
        IN  /\ deltas' = deltas
            /\ k \in DOMAIN deltas =>
                    last'.exists = (deltas[k] # Nil)
            /\ (k \notin DOMAIN deltas /\ k \in DOMAIN cache) =>
                    last'.exists = (cache[k] # Nil)
            /\ local =>
                    ledgerCalls' = << >> /\ cache' = cache /\ last'.status = "ok"
            /\ ~local =>
                    /\ Len(ledgerCalls') = 1
                    /\ ledgerCalls'[1].call = "value_exists"
                    /\ ledgerCalls'[1].key = k
                    /\ last'.status = "ok" =>
                        /\ last'.exists = (Len(ledger[k]) > 0)
                        /\ cache' = IF last'.exists THEN cache
                                    ELSE MapSet(cache, k, Nil)]_vars

\* A ValueExists the ledger answered false to.
C18_Witness ==
    /\ last.op = "ValueExists"
    /\ last.status = "ok"
    /\ ~last.exists
    /\ Len(ledgerCalls) = 1
    /\ last.key \in DOMAIN cache
    /\ cache[last.key] = Nil

\* ValueExists then ReadValue on key k, without ledger error: whether the
\* first returned true exactly when the second returned Some.
ExistsThenReadAgree(k) ==
    LET e == ValueExists(deltas, cache, ledger, k, FALSE)
        r == ReadValue(deltas, e.cache, ledger, k, FALSE)
    IN  e.exists <=> (r.status = "ok" /\ r.ret # NilValue)

\* ReadValue then ValueExists on key k, without ledger error.
ReadThenExistsAgree(k) ==
    LET r == ReadValue(deltas, cache, ledger, k, FALSE)
        e == ValueExists(deltas, r.cache, ledger, k, FALSE)
    IN  e.exists <=> (r.status = "ok" /\ r.ret # NilValue)

\* C19 as stated: in every state and for every key, without ledger error,
\* ValueExists returns true exactly when ReadValue returns Some, in either
\* order of the two calls.
C19_ExistsAgreesWithRead ==
    \A k \in StorageKeys : ExistsThenReadAgree(k) /\ ReadThenExistsAgree(k)

\* C19, amended: the same, for every key whose ReadValue returns normally
\* (the bytes the ledger holds for it, if any, decode).
C19_ExistsAgreesWithNormalRead ==
    \A k \in StorageKeys :
        ReadValue(deltas, cache, ledger, k, FALSE).status = "ok" =>
            ExistsThenReadAgree(k) /\ ReadThenExistsAgree(k)

\* A ValueExists the ledger answered true to, for a key ReadValue then
\* loads a value for.
C19_Witness ==
    /\ last.op = "ValueExists"
    /\ last.exists
    /\ Len(ledgerCalls) = 1
    /\ ReadValue(deltas, cache, ledger, last.key, FALSE).status = "ok"
    /\ ReadValue(deltas, cache, ledger, last.key, FALSE).ret # NilValue

\* Every cache entry reflects the ledger: nil for a key the ledger holds
\* nothing for, else the decoding of the bytes the ledger holds.
CacheSound ==
    \A k \in DOMAIN cache :
        IF cache[k] = Nil THEN Len(ledger[k]) = 0
        ELSE Decode(ledger[k]) = cache[k]

\* C20: until Commit runs on a Storage, every entry of its cache reflects
\* the ledger.
C20_CacheSoundBeforeCommit == ~committed => CacheSound

\* A cached value next to a different written value for the same key,
\* before any Commit.
C20_Witness ==
    /\ ~committed
    /\ \E k \in (DOMAIN cache) \cap (DOMAIN deltas) :
        cache[k] # Nil /\ deltas[k] # cache[k]

\* The keys the current Storage buffers a write for.
BufferedKeys == (DOMAIN written) \cup (DOMAIN contractUpdates)

Reports(kind, n) == [i \in 1..n |-> kind]

\* The entries of the map m that hold a value, and those that are deletions.
ValueEntries(m) == {k \in DOMAIN m : m[k] # Nil}

DeletionEntries(m) == {k \in DOMAIN m : m[k] = Nil}

\* The set_value calls among calls that carry encoded bytes, and those that
\* carry none.
EncodedWrites(calls) ==
    SelectSeq(calls, LAMBDA c : c.call = "set_value" /\ c.bytes # << >>)

EmptyWrites(calls) ==
    SelectSeq(calls, LAMBDA c : c.call = "set_value" /\ c.bytes = << >>)

Wide(a) == Append(a, 0)

\* The sum of the amounts the first n usages of us report for kind, exact.
RECURSIVE Total(_, _, _)
Total(us, kind, n) ==
    IF n = 0 THEN Wide(Uint64(0))
    ELSE IF us[n].Kind = kind
         THEN AddLimbs(Total(us, kind, n - 1), Wide(us[n].Amount), Limbs + 1)
         ELSE Total(us, kind, n - 1)

\* The kinds a usage was reported for.
ReportedKinds == {usages[i].Kind : i \in 1..Len(usages)}

\* A report leaves the totals of the kinds it is not for as they were.
OtherKindsUnchanged ==
    usages # << >> =>
        \A kind \in MemoryKinds \ {usages[Len(usages)].Kind} :
            getMemory(meter, kind) = getMemory(meterBefore, kind)

\* C23 as stated: the total read for each kind is the sum of the amounts
\* reported for that kind (0 for a kind never reported), and a report
\* leaves the totals of the other kinds unchanged.
C23_GaugeTotalsAreSums ==
    /\ \A kind \in MemoryKinds :
            Wide(getMemory(meter, kind)) = Total(usages, kind, Len(usages))
    /\ OtherKindsUnchanged

\* C23, amended: the total read for each kind is the sum of the amounts
\* reported for that kind reduced modulo 2^64, which is the sum itself as
\* long as the sum is below 2^64; a kind never reported reads 0, and a
\* report leaves the totals of the other kinds unchanged.
C23_GaugeTotalsAreSumsModulo ==
    /\ \A kind \in MemoryKinds :
            LET sum == Total(usages, kind, Len(usages))
            IN  /\ getMemory(meter, kind) = SubSeq(sum, 1, Limbs)
                /\ sum[Limbs + 1] = 0 => Wide(getMemory(meter, kind)) = sum
    /\ \A kind \in MemoryKinds \ ReportedKinds :
            getMemory(meter, kind) = Uint64(0)
    /\ OtherKindsUnchanged

\* Reports for two kinds, the amounts of one of them adding up to 2^64 or
\* more.
C23_Witness ==
    /\ \E kind \in ReportedKinds :
            Total(usages, kind, Len(usages))[Limbs + 1] > 0
    /\ \E kind \in ReportedKinds :
            /\ Total(usages, kind, Len(usages))[Limbs + 1] = 0
            /\ getMemory(meter, kind) # Uint64(0)

\* The positions of ev that hold a call of the given name.
EventsOf(ev, call) == {j \in 1..Len(ev) : ev[j].call = call}

\* The position of the first failed check of ev, or one past its end.
FirstFailure(ev) ==
    LET failed == {j \in EventsOf(ev, "check") : ev[j].arg # Nil}
    IN  IF failed = {} THEN Len(ev) + 1
        ELSE CHOOSE j \in failed : \A k \in failed : j <= k

\* An Accept step whose code the parser found complete and free of errors.
AcceptsElements ==
    /\ accepts' = accepts + 1
    /\ parsed'.inputIsComplete
    /\ parsed'.err = Nil

\* C24: Accept checks before it executes and stops at the first failure.
\* The elements are checked in their order, the checker's errors having been
\* reset first; an element is executed right after its own check reported
\* no checker error, and onResult is invoked only right after the execution
\* of the element whose value it is given; nothing is checked or executed
\* after the first failed check, and without a failed check every element
\* is executed; the interpreter keeps the effect of every executed element.
C24_CheckBeforeExecute ==
    [][AcceptsElements =>
        LET ev == events'
            checks == EventsOf(ev, "check")
            runs == EventsOf(ev, "execute")
            fail == FirstFailure(ev)
        IN  /\ accepted' = Returned(TRUE)
            /\ ev[1].call = "ResetErrors"
            /\ \A j \in checks :
                    ev[j].element = Cardinality({k \in checks : k <= j})
            /\ \A j \in runs :
                    /\ ev[j - 1].call = "check"
                    /\ ev[j - 1].element = ev[j].element
                    /\ ev[j - 1].arg = Nil
            /\ \A j \in EventsOf(ev, "onResult") :
                    /\ repl.onResult # Nil
                    /\ ev[j - 1].call = "execute"
                    /\ ev[j - 1].element = ev[j].element
                    /\ ev[j - 1].arg = ev[j].arg
            /\ \A j \in 1..Len(ev) :
                    j > fail => ev[j].call = "onError" /\ j = fail + 1
            /\ fail > Len(ev) => Cardinality(runs) = parsed'.elements
            /\ repl'.inter = repl.inter + Cardinality(runs)
    ]_vars

\* An Accept of two elements: the first executed and its value handed to
\* onResult, the second failing its check and not executed.
C24_Witness ==
    /\ parsed.inputIsComplete /\ parsed.err = Nil /\ parsed.elements = 2
    /\ EventsOf(events, "onResult") # {}
    /\ FirstFailure(events) <= Len(events)
    /\ Cardinality(EventsOf(events, "execute")) = 1
    /\ repl.inter > 0

\* C25: a REPL created with a nil onError or a nil onResult never invokes
\* the nil callback, whatever the input to Accept: every onError call is on
\* a REPL holding an onError function, every onResult call on one holding
\* an onResult function, and no Accept ends in the panic of a nil call.
C25_NilCallbacksNeverInvoked ==
    /\ EventsOf(events, "onError") # {} => repl.onError # Nil
    /\ EventsOf(events, "onResult") # {} => repl.onResult # Nil
    /\ accepted.status # "panic"

\* C26: Accept on incomplete input has no effect.  It returns false with no
\* call made (no ResetErrors, no check, no execute, no onError, no onResult)
\* and leaves the checker, its errors included, and the interpreter as they
\* were, also when the parser returned an error with the incompleteness.
C26_IncompleteInputNoEffect ==
    [][(accepts' = accepts + 1 /\ ~parsed'.inputIsComplete) =>
            /\ accepted' = Returned(FALSE)
            /\ events' = << >>
            /\ repl' = repl
    ]_vars

\* An Accept of incomplete code of some elements that came with a parser
\* error, on a REPL whose checker held the error of an earlier Accept.
C26_Witness ==
    /\ accepts > 1
    /\ ~parsed.inputIsComplete
    /\ parsed.err # Nil
    /\ parsed.elements > 0
    /\ repl.checker.errors > 0
    /\ events = << >>
    /\ accepted = Returned(FALSE)

====
